---- MODULE Spec2Model ----
(***************************************************************************)
(* zeus::queue<T> (include/zeus/queue.hpp) and zeus::slot<T>               *)
(* (include/zeus/slot.hpp): a bounded multi-producer multi-consumer queue  *)
(* in which head and tail hand out tickets and every slot carries a turn   *)
(* counter.  Each atomic operation of the source is one step of the model; *)
(* the threads interleave freely between steps.                            *)
(***************************************************************************)
EXTENDS Integers, Naturals, Sequences, FiniteSets, Bags, TLC

NumThreads == 2      \* threads calling into the queue
MaxCapacity == 2     \* the queue is constructed with a capacity in 1..MaxCapacity
MaxOps == 4          \* calls started in one behaviour
NumValues == 2       \* distinct element values offered to the inserts
NumPairs == 2        \* producer threads, and as many consumer threads, of the test workload
NumEach == 3         \* values every producer pushes and every consumer removes in the workload
NumPushes == 3       \* pushes of all the producers of the workload together

Procs == 1..NumThreads
Values == 1..NumValues
None == 0            \* no value: uninitialised storage, std::nullopt, no result

VARIABLES
    max_capacity,   \* queue::max_capacity, fixed by the constructor
    workload,       \* the loop counts of the test's threads, NoWorkload when callers are free
    teardown,       \* NotTornDown, or per slot the slot::destroy calls made by the destructor
    head,           \* queue::head, the next insert ticket
    tail,           \* queue::tail, the next remove ticket
    slots,          \* queue::slots: per slot its turn, its storage and whether a T lives there
    pc,             \* per thread: the position inside the call it is running
    op,             \* per thread: the member function it is running or ran last
    arguments,      \* per thread: the value handed to emplace/push/try_emplace/try_push
    current_head,   \* per thread: the local current_head
    current_tail,   \* per thread: the local current_tail
    rv,             \* per thread: the local rv of pop/try_pop
    ret,            \* per thread: what the last call returned
    inserted,       \* history: per head ticket, the value, the thread and the function owning it
    insDone,        \* history: head tickets whose insert call has returned
    removed,        \* history: per tail ticket, what its remove returned and to whom
    nConstruct,     \* history: calls of slot::construct
    nDestroy,       \* history: calls of slot::destroy by pop and try_pop
    lifetimeError,  \* history: a construct over a live T or a destroy of no T has happened
    solo,           \* history: per thread, whether its call ran alone and what was held then
    seen,           \* history: per thread, what held at some instant of the running call
    opsStarted      \* history: calls started

vars == <<max_capacity, workload, teardown, head, tail, slots, pc, op, arguments,
          current_head, current_tail, rv, ret,
          inserted, insDone, removed, nConstruct, nDestroy, lifetimeError, solo,
          seen, opsStarted>>

shared == <<head, tail, slots>>
locals == <<arguments, current_head, current_tail, rv>>
lifetimes == <<nConstruct, nDestroy, lifetimeError>>

Tickets == 0..(MaxOps - 1)
Threads == DOMAIN pc
NoWorkload == [pairs |-> 0, each |-> 0]
NotTornDown == <<>>
NotSolo == [alone |-> FALSE, held |-> 0]
NeverSeen == [noSlot |-> FALSE, room |-> FALSE, empty |-> FALSE, frontUnpublished |-> FALSE,
              iterations |-> 0, advances |-> 0,
              readerWaiting |-> FALSE, readerWaited |-> FALSE, tailAdvanced |-> FALSE]

InsertOps == {"emplace", "try_emplace"}
RemoveOps == {"pop", "try_pop"}

----------------------------------------------------------------------------
(* queue::get_idx and queue::get_current_turn *)

get_idx(i) == i % max_capacity

get_current_turn(i) == i \div max_capacity

(* slot with turn initialised to 1, the reader turn of generation 0 *)
slot_turn_one == [turn |-> 1, storage |-> None, live |-> FALSE]

(* slot::slot: turn = 0, storage uninitialised *)
slot == [turn |-> 0, storage |-> None, live |-> FALSE]

(* slot::construct: placement-new of T(arguments) into storage *)
construct(s, v) == [s EXCEPT !.storage = v, !.live = TRUE]

(* slot::destroy: runs ~T(); the bytes stay where they are *)
destroy(s) == [s EXCEPT !.live = FALSE]

(* slot::move: an rvalue reference to whatever storage holds *)
move(s) == s.storage

----------------------------------------------------------------------------
(* History bookkeeping shared by the steps *)

NoRemoval == [value |-> None, by |-> 0, via |-> "none"]

RemovedTickets == {t \in DOMAIN removed : removed[t] # NoRemoval}

(* elements held: inserts that have returned minus removes that have returned *)
Held == Cardinality(insDone) - Cardinality(RemovedTickets)

Quiescent == \A p \in Threads : pc[p] = "idle"

NoRemovalInFlight == \A q \in Threads : pc[q] = "idle" \/ op[q] \notin RemoveOps

(* the slot the next head ticket selects is not at the writer turn of that ticket *)
NoSlot == slots[get_idx(head)].turn # 2 * get_current_turn(head)

(* the queue does not hold max_capacity elements, or a removal is in flight *)
Room == Held # max_capacity \/ ~NoRemovalInFlight

(* the slot the next tail ticket selects is not at the reader turn of that ticket *)
FrontUnpublished == slots[get_idx(tail)].turn # 2 * get_current_turn(tail) + 1

(* tickets whose insert has returned and that no remove has claimed *)
InQueue == {k \in insDone : k >= tail}

(* a pop has claimed a tail ticket whose element no insert has published yet *)
ReaderWaiting ==
    \E q \in Threads : pc[q] = "pop_wait" /\ current_tail[q] \notin insDone

(* the positions of the retry loops of try_emplace and try_pop *)
LoopPcs == {"try_emplace_turn", "try_emplace_cas", "try_emplace_reload",
            "try_pop_turn", "try_pop_cas", "try_pop_reload"}

(* what the call thread q is running looks for in the state *)
Instant(q) ==
    IF op[q] = "try_emplace"
    THEN [NeverSeen EXCEPT !.noSlot = NoSlot, !.room = Room]
    ELSE IF op[q] = "try_pop"
    THEN [NeverSeen EXCEPT !.empty = (InQueue = {}), !.frontUnpublished = FrontUnpublished]
    ELSE IF op[q] \in {"size", "empty"}
    THEN [NeverSeen EXCEPT !.readerWaiting = ReaderWaiting, !.readerWaited = ReaderWaiting]
    ELSE NeverSeen

(* b is the latest instant: readerWaiting is about it alone, the counts are kept *)
Either(a, b) == [a EXCEPT !.noSlot = a.noSlot \/ b.noSlot, !.room = a.room \/ b.room,
                          !.empty = a.empty \/ b.empty,
                          !.frontUnpublished = a.frontUnpublished \/ b.frontUnpublished,
                          !.readerWaiting = b.readerWaiting,
                          !.readerWaited = a.readerWaited \/ b.readerWaited]

(* the step of thread p, as the running call of thread q counts it: q's own entries  *)
(* into its retry loop, the tickets other threads claimed from the counter q's loop  *)
(* reads, and a tail ticket claimed after size() loaded head and before it loads tail *)
Counted(p, q) ==
    [iterations |-> IF q = p /\ pc'[q] \in {"try_emplace_turn", "try_pop_turn"} THEN 1 ELSE 0,
     advances |-> IF /\ q # p
                     /\ pc[q] \in LoopPcs
                     /\ \/ op[q] = "try_emplace" /\ head' # head
                        \/ op[q] = "try_pop" /\ tail' # tail
                  THEN 1 ELSE 0,
     tailAdvanced |-> pc[q] = "size_load_tail" /\ tail' # tail]

(* after a step of thread p: every running call has seen the state reached *)
Observe(p) ==
    seen' = [q \in Threads |->
               LET n == Counted(p, q) IN
               IF q = p /\ pc[p] = "idle"
               THEN [Instant(q)' EXCEPT !.iterations = n.iterations]
               ELSE IF pc[q] # "idle"
               THEN [Either(seen[q], Instant(q)') EXCEPT
                        !.iterations = @ + n.iterations,
                        !.advances = @ + n.advances,
                        !.tailAdvanced = @ \/ n.tailAdvanced]
               ELSE seen[q]]

(* thread p begins a call *)
Begin(p) ==
    /\ pc[p] = "idle"
    /\ teardown = NotTornDown
    /\ IF workload = NoWorkload
       THEN opsStarted < MaxOps /\ opsStarted' = opsStarted + 1
       ELSE UNCHANGED opsStarted
    /\ UNCHANGED <<max_capacity, workload, teardown>>
    /\ solo' = [q \in Threads |->
                  IF q = p
                  THEN IF \A r \in Threads \ {p} : pc[r] = "idle"
                       THEN [alone |-> TRUE, held |-> Held]
                       ELSE NotSolo
                  ELSE IF pc[q] # "idle" THEN NotSolo ELSE solo[q]]

(* thread p takes a step inside a call *)
Inside(p, at) ==
    /\ pc[p] = at
    /\ UNCHANGED <<max_capacity, workload, teardown, op, solo, opsStarted>>

(* thread p returns r to its caller *)
Return(p, r) ==
    /\ pc' = [pc EXCEPT ![p] = "idle"]
    /\ ret' = [ret EXCEPT ![p] = r]
    /\ arguments' = [arguments EXCEPT ![p] = None]
    /\ current_head' = [current_head EXCEPT ![p] = 0]
    /\ current_tail' = [current_tail EXCEPT ![p] = 0]
    /\ rv' = [rv EXCEPT ![p] = None]

Goto(p, at) ==
    /\ pc' = [pc EXCEPT ![p] = at]
    /\ UNCHANGED ret

----------------------------------------------------------------------------
(* queue::queue: max_capacity + 1 slots, head = tail = 0 *)

Constructed(threads, tickets, loops) ==
    /\ max_capacity \in 1..MaxCapacity
    /\ workload = loops
    /\ teardown = NotTornDown
    /\ head = 0
    /\ tail = 0
    /\ slots = [i \in 0..max_capacity |-> slot]
    /\ pc = [p \in threads |-> "idle"]
    /\ op = [p \in threads |-> "none"]
    /\ arguments = [p \in threads |-> None]
    /\ current_head = [p \in threads |-> 0]
    /\ current_tail = [p \in threads |-> 0]
    /\ rv = [p \in threads |-> None]
    /\ ret = [p \in threads |-> None]
    /\ inserted = <<>>
    /\ insDone = {}
    /\ removed = [t \in tickets |-> NoRemoval]
    /\ nConstruct = 0
    /\ nDestroy = 0
    /\ lifetimeError = FALSE
    /\ solo = [p \in threads |-> NotSolo]
    /\ seen = [p \in threads |-> NeverSeen]
    /\ opsStarted = 0

Init == Constructed(Procs, Tickets, NoWorkload)

----------------------------------------------------------------------------
(* queue::emplace, and queue::push which forwards to it *)

(* current_head = head.fetch_add(1) *)
emplace(p, v) ==
    /\ Begin(p)
    /\ op' = [op EXCEPT ![p] = "emplace"]
    /\ head' = head + 1
    /\ current_head' = [current_head EXCEPT ![p] = head]
    /\ arguments' = [arguments EXCEPT ![p] = v]
    /\ inserted' = Append(inserted, [value |-> v, by |-> p, via |-> "emplace"])
    /\ Goto(p, "emplace_wait")
    /\ UNCHANGED <<tail, slots, current_tail, rv, insDone, removed, lifetimes>>
    /\ Observe(p)

(* push(P&&) and push(const T&): emplace(value) *)
push(p, v) == emplace(p, v)

(* emplace_construct without the wait for the writer turn *)
emplace_construct_no_wait(p) ==
    LET i == get_idx(current_head[p]) IN
    /\ Inside(p, "emplace_wait")
    /\ slots' = [slots EXCEPT ![i] = construct(@, arguments[p])]
    /\ nConstruct' = nConstruct + 1
    /\ lifetimeError' = (lifetimeError \/ slots[i].live)
    /\ Goto(p, "emplace_publish")
    /\ UNCHANGED <<head, tail, locals, inserted, insDone, removed, nDestroy>>
    /\ Observe(p)

(* the spin loop leaves when the slot shows the writer turn; then slot.construct *)
emplace_construct(p) ==
    LET i == get_idx(current_head[p]) IN
    /\ Inside(p, "emplace_wait")
    /\ get_current_turn(current_head[p]) * 2 = slots[i].turn
    /\ slots' = [slots EXCEPT ![i] = construct(@, arguments[p])]
    /\ nConstruct' = nConstruct + 1
    /\ lifetimeError' = (lifetimeError \/ slots[i].live)
    /\ Goto(p, "emplace_publish")
    /\ UNCHANGED <<head, tail, locals, inserted, insDone, removed, nDestroy>>
    /\ Observe(p)

(* emplace_publish storing the writer turn 2g again *)
emplace_publish_same_turn(p) ==
    LET i == get_idx(current_head[p]) IN
    /\ Inside(p, "emplace_publish")
    /\ slots' = [slots EXCEPT ![i].turn = get_current_turn(current_head[p]) * 2]
    /\ insDone' = insDone \cup {current_head[p]}
    /\ Return(p, None)
    /\ UNCHANGED <<head, tail, inserted, removed, lifetimes>>
    /\ Observe(p)

(* slot.turn.store(2g + 1, release), and the call returns *)
emplace_publish(p) ==
    LET i == get_idx(current_head[p]) IN
    /\ Inside(p, "emplace_publish")
    /\ slots' = [slots EXCEPT ![i].turn = get_current_turn(current_head[p]) * 2 + 1]
    /\ insDone' = insDone \cup {current_head[p]}
    /\ Return(p, None)
    /\ UNCHANGED <<head, tail, inserted, removed, lifetimes>>
    /\ Observe(p)

----------------------------------------------------------------------------
(* queue::try_emplace, and queue::try_push which forwards to it *)

(* current_head = head.load(acquire) *)
try_emplace(p, v) ==
    /\ Begin(p)
    /\ op' = [op EXCEPT ![p] = "try_emplace"]
    /\ current_head' = [current_head EXCEPT ![p] = head]
    /\ arguments' = [arguments EXCEPT ![p] = v]
    /\ Goto(p, "try_emplace_turn")
    /\ UNCHANGED <<shared, current_tail, rv, inserted, insDone, removed, lifetimes>>
    /\ Observe(p)

(* try_push(const T&): try_emplace(value) *)
try_push(p, v) == try_emplace(p, v)

(* try_emplace_turn taking every slot whose turn is not beyond the expected one *)
try_emplace_turn_at_most(p) ==
    LET loaded_turn == slots[get_idx(current_head[p])].turn
        current_turn == get_current_turn(current_head[p]) * 2
    IN
    /\ Inside(p, "try_emplace_turn")
    /\ IF current_turn >= loaded_turn
       THEN Goto(p, "try_emplace_cas")
       ELSE Goto(p, "try_emplace_reload")
    /\ UNCHANGED <<shared, locals, inserted, insDone, removed, lifetimes>>
    /\ Observe(p)

(* loaded_turn = slot.turn.load(acquire), compared with current_turn *)
try_emplace_turn(p) ==
    LET loaded_turn == slots[get_idx(current_head[p])].turn
        current_turn == get_current_turn(current_head[p]) * 2
    IN
    /\ Inside(p, "try_emplace_turn")
    /\ IF current_turn = loaded_turn
       THEN Goto(p, "try_emplace_cas")
       ELSE Goto(p, "try_emplace_reload")
    /\ UNCHANGED <<shared, locals, inserted, insDone, removed, lifetimes>>
    /\ Observe(p)

(* try_emplace_cas whose failure leaves current_head at the value that was compared *)
try_emplace_cas_stale(p) ==
    /\ Inside(p, "try_emplace_cas")
    /\ IF head = current_head[p]
       THEN /\ head' = head + 1
            /\ inserted' = Append(inserted, [value |-> arguments[p], by |-> p,
                                             via |-> "try_emplace"])
            /\ Goto(p, "try_emplace_construct")
       ELSE /\ Goto(p, "try_emplace_turn")
            /\ UNCHANGED <<head, inserted>>
    /\ UNCHANGED <<tail, slots, locals, insDone, removed, lifetimes>>
    /\ Observe(p)

(* head.compare_exchange_strong(current_head, current_head + 1) *)
try_emplace_cas(p) ==
    /\ Inside(p, "try_emplace_cas")
    /\ IF head = current_head[p]
       THEN /\ head' = head + 1
            /\ inserted' = Append(inserted, [value |-> arguments[p], by |-> p,
                                             via |-> "try_emplace"])
            /\ Goto(p, "try_emplace_construct")
            /\ UNCHANGED current_head
       ELSE /\ current_head' = [current_head EXCEPT ![p] = head]
            /\ Goto(p, "try_emplace_turn")
            /\ UNCHANGED <<head, inserted>>
    /\ UNCHANGED <<tail, slots, arguments, current_tail, rv, insDone, removed, lifetimes>>
    /\ Observe(p)

(* try_emplace_reload giving up without reading head again *)
try_emplace_reload_no_retry(p) ==
    /\ Inside(p, "try_emplace_reload")
    /\ Return(p, FALSE)
    /\ UNCHANGED <<shared, inserted, insDone, removed, lifetimes>>
    /\ Observe(p)

(* prev_head = current_head; current_head = head.load(acquire); equal: return false *)
try_emplace_reload(p) ==
    LET prev_head == current_head[p] IN
    /\ Inside(p, "try_emplace_reload")
    /\ IF head = prev_head
       THEN Return(p, FALSE)
       ELSE /\ current_head' = [current_head EXCEPT ![p] = head]
            /\ Goto(p, "try_emplace_turn")
            /\ UNCHANGED <<arguments, current_tail, rv>>
    /\ UNCHANGED <<shared, inserted, insDone, removed, lifetimes>>
    /\ Observe(p)

(* slot.construct(arguments) *)
try_emplace_construct(p) ==
    LET i == get_idx(current_head[p]) IN
    /\ Inside(p, "try_emplace_construct")
    /\ slots' = [slots EXCEPT ![i] = construct(@, arguments[p])]
    /\ nConstruct' = nConstruct + 1
    /\ lifetimeError' = (lifetimeError \/ slots[i].live)
    /\ Goto(p, "try_emplace_publish")
    /\ UNCHANGED <<head, tail, locals, inserted, insDone, removed, nDestroy>>
    /\ Observe(p)

(* slot.turn.store(current_turn + 1, release); return true *)
try_emplace_publish(p) ==
    LET i == get_idx(current_head[p])
        current_turn == get_current_turn(current_head[p]) * 2
    IN
    /\ Inside(p, "try_emplace_publish")
    /\ slots' = [slots EXCEPT ![i].turn = current_turn + 1]
    /\ insDone' = insDone \cup {current_head[p]}
    /\ Return(p, TRUE)
    /\ UNCHANGED <<head, tail, inserted, removed, lifetimes>>
    /\ Observe(p)

----------------------------------------------------------------------------
(* queue::pop *)

(* current_tail = tail.fetch_add(1) *)
pop(p) ==
    /\ Begin(p)
    /\ op' = [op EXCEPT ![p] = "pop"]
    /\ tail' = tail + 1
    /\ current_tail' = [current_tail EXCEPT ![p] = tail]
    /\ Goto(p, "pop_wait")
    /\ UNCHANGED <<head, slots, arguments, current_head, rv, inserted, insDone, removed,
                   lifetimes>>
    /\ Observe(p)

(* the spin loop leaves when the slot shows the reader turn; T rv(slot.move());
   slot.destroy() *)
pop_take(p) ==
    LET i == get_idx(current_tail[p]) IN
    /\ Inside(p, "pop_wait")
    /\ get_current_turn(current_tail[p]) * 2 + 1 = slots[i].turn
    /\ rv' = [rv EXCEPT ![p] = move(slots[i])]
    /\ slots' = [slots EXCEPT ![i] = destroy(@)]
    /\ nDestroy' = nDestroy + 1
    /\ lifetimeError' = (lifetimeError \/ ~slots[i].live)
    /\ Goto(p, "pop_publish")
    /\ UNCHANGED <<head, tail, arguments, current_head, current_tail, inserted, insDone,
                   removed, nConstruct>>
    /\ Observe(p)

(* pop_publish storing the reader turn again instead of the next writer turn *)
pop_publish_same_turn(p) ==
    LET i == get_idx(current_tail[p]) IN
    /\ Inside(p, "pop_publish")
    /\ slots' = [slots EXCEPT ![i].turn = get_current_turn(current_tail[p]) * 2 + 1]
    /\ removed' = [removed EXCEPT ![current_tail[p]] = [value |-> rv[p], by |-> p, via |-> op[p]]]
    /\ Return(p, rv[p])
    /\ UNCHANGED <<head, tail, inserted, insDone, lifetimes>>
    /\ Observe(p)

(* slot.turn.store(2g + 2, release); return rv *)
pop_publish(p) ==
    LET i == get_idx(current_tail[p]) IN
    /\ Inside(p, "pop_publish")
    /\ slots' = [slots EXCEPT ![i].turn = get_current_turn(current_tail[p]) * 2 + 2]
    /\ removed' = [removed EXCEPT ![current_tail[p]] = [value |-> rv[p], by |-> p, via |-> op[p]]]
    /\ Return(p, rv[p])
    /\ UNCHANGED <<head, tail, inserted, insDone, lifetimes>>
    /\ Observe(p)

----------------------------------------------------------------------------
(* queue::try_pop *)

(* current_tail = tail.load(acquire) *)
try_pop(p) ==
    /\ Begin(p)
    /\ op' = [op EXCEPT ![p] = "try_pop"]
    /\ current_tail' = [current_tail EXCEPT ![p] = tail]
    /\ Goto(p, "try_pop_turn")
    /\ UNCHANGED <<shared, arguments, current_head, rv, inserted, insDone, removed,
                   lifetimes>>
    /\ Observe(p)

(* try_pop_turn that steps over a slot not at the reader turn by advancing tail *)
try_pop_turn_skipping(p) ==
    LET loaded_turn == slots[get_idx(current_tail[p])].turn
        expected_turn == get_current_turn(current_tail[p]) * 2 + 1
    IN
    /\ Inside(p, "try_pop_turn")
    /\ IF expected_turn = loaded_turn
       THEN Goto(p, "try_pop_cas") /\ UNCHANGED tail
       ELSE Goto(p, "try_pop_reload") /\ tail' = tail + 1
    /\ UNCHANGED <<head, slots, locals, inserted, insDone, removed, lifetimes>>
    /\ Observe(p)

(* loaded_turn = slot.turn.load(acquire), compared with expected_turn *)
try_pop_turn(p) ==
    LET loaded_turn == slots[get_idx(current_tail[p])].turn
        expected_turn == get_current_turn(current_tail[p]) * 2 + 1
    IN
    /\ Inside(p, "try_pop_turn")
    /\ IF expected_turn = loaded_turn
       THEN Goto(p, "try_pop_cas")
       ELSE Goto(p, "try_pop_reload")
    /\ UNCHANGED <<shared, locals, inserted, insDone, removed, lifetimes>>
    /\ Observe(p)

(* try_pop_cas as a load, a comparison and a store that are not one atomic step: *)
(* the comparison may have been made with an earlier value of tail               *)
try_pop_cas_not_atomic(p) ==
    /\ Inside(p, "try_pop_cas")
    /\ tail' = current_tail[p] + 1
    /\ Goto(p, "try_pop_take")
    /\ UNCHANGED <<head, slots, locals, inserted, insDone, removed, lifetimes>>
    /\ Observe(p)

(* tail.compare_exchange_strong(current_tail, current_tail + 1) *)
try_pop_cas(p) ==
    /\ Inside(p, "try_pop_cas")
    /\ IF tail = current_tail[p]
       THEN /\ tail' = tail + 1
            /\ Goto(p, "try_pop_take")
            /\ UNCHANGED current_tail
       ELSE /\ current_tail' = [current_tail EXCEPT ![p] = tail]
            /\ Goto(p, "try_pop_turn")
            /\ UNCHANGED tail
    /\ UNCHANGED <<head, slots, arguments, current_head, rv, inserted, insDone, removed,
                   lifetimes>>
    /\ Observe(p)

(* try_pop_reload giving up without reading tail again *)
try_pop_reload_no_retry(p) ==
    /\ Inside(p, "try_pop_reload")
    /\ Return(p, None)
    /\ UNCHANGED <<shared, inserted, insDone, removed, lifetimes>>
    /\ Observe(p)

(* prev_tail = current_tail; current_tail = tail.load(acquire); equal: return nullopt *)
try_pop_reload(p) ==
    LET prev_tail == current_tail[p] IN
    /\ Inside(p, "try_pop_reload")
    /\ IF tail = prev_tail
       THEN Return(p, None)
       ELSE /\ current_tail' = [current_tail EXCEPT ![p] = tail]
            /\ Goto(p, "try_pop_turn")
            /\ UNCHANGED <<arguments, current_head, rv>>
    /\ UNCHANGED <<shared, inserted, insDone, removed, lifetimes>>
    /\ Observe(p)

(* T rv = slot.move(); slot.destroy(), in program order before the store of turn *)
try_pop_take(p) ==
    LET i == get_idx(current_tail[p]) IN
    /\ Inside(p, "try_pop_take")
    /\ rv' = [rv EXCEPT ![p] = move(slots[i])]
    /\ slots' = [slots EXCEPT ![i] = destroy(@)]
    /\ nDestroy' = nDestroy + 1
    /\ lifetimeError' = (lifetimeError \/ ~slots[i].live)
    /\ Goto(p, "try_pop_publish")
    /\ UNCHANGED <<head, tail, arguments, current_head, current_tail, inserted, insDone,
                   removed, nConstruct>>
    /\ Observe(p)

(* slot.turn.store(2g + 2, relaxed); return rv *)
try_pop_publish(p) ==
    LET i == get_idx(current_tail[p]) IN
    /\ Inside(p, "try_pop_publish")
    /\ slots' = [slots EXCEPT ![i].turn = get_current_turn(current_tail[p]) * 2 + 2]
    /\ removed' = [removed EXCEPT ![current_tail[p]] = [value |-> rv[p], by |-> p, via |-> op[p]]]
    /\ Return(p, rv[p])
    /\ UNCHANGED <<head, tail, inserted, insDone, lifetimes>>
    /\ Observe(p)

(* The store of turn is memory_order_relaxed: nothing orders it after the plain
   accesses to storage that precede it in program order, so the other threads may
   see turn 2g + 2 before slot.move() and slot.destroy() have touched storage.
   The access to storage then races with the construct of the next writer. *)
try_pop_publish_early(p) ==
    LET i == get_idx(current_tail[p]) IN
    /\ Inside(p, "try_pop_take")
    /\ slots' = [slots EXCEPT ![i].turn = get_current_turn(current_tail[p]) * 2 + 2]
    /\ Goto(p, "try_pop_take_late")
    /\ UNCHANGED <<head, tail, locals, inserted, insDone, removed, lifetimes>>
    /\ Observe(p)

(* slot.move() and slot.destroy() taking effect after the store of turn; return rv *)
try_pop_take_late(p) ==
    LET i == get_idx(current_tail[p]) IN
    /\ Inside(p, "try_pop_take_late")
    /\ slots' = [slots EXCEPT ![i] = destroy(@)]
    /\ nDestroy' = nDestroy + 1
    /\ lifetimeError' = (lifetimeError \/ ~slots[i].live)
    /\ removed' = [removed EXCEPT ![current_tail[p]] = [value |-> move(slots[i]), by |-> p,
                                                        via |-> op[p]]]
    /\ Return(p, move(slots[i]))
    /\ UNCHANGED <<head, tail, inserted, insDone, nConstruct>>
    /\ Observe(p)

----------------------------------------------------------------------------
(* queue::size and queue::empty *)

(* size_t_difference with the operands exchanged: tail - head *)
size_t_difference_swapped(h, t) ==
    IF t >= h THEN [wrapped |-> FALSE, low |-> t - h] ELSE [wrapped |-> TRUE, low |-> h - t]

(* head - tail on std::size_t: below zero it wraps to 2^64 - low *)
size_t_difference(h, t) ==
    IF h >= t THEN [wrapped |-> FALSE, low |-> h - t] ELSE [wrapped |-> TRUE, low |-> t - h]

(* static_cast<std::ptrdiff_t>: 2^64 - low reads as -low *)
to_ptrdiff_t(difference) == IF difference.wrapped THEN 0 - difference.low ELSE difference.low

(* the two relaxed loads are the operands of one subtraction: either may come first *)
size_load_first(p, name) ==
    /\ Begin(p)
    /\ op' = [op EXCEPT ![p] = name]
    /\ \/ /\ current_head' = [current_head EXCEPT ![p] = head]
          /\ Goto(p, "size_load_tail")
          /\ UNCHANGED current_tail
       \/ /\ current_tail' = [current_tail EXCEPT ![p] = tail]
          /\ Goto(p, "size_load_head")
          /\ UNCHANGED current_head
    /\ UNCHANGED <<shared, arguments, rv, inserted, insDone, removed, lifetimes>>
    /\ Observe(p)

size(p) == size_load_first(p, "size")

empty(p) == size_load_first(p, "empty")

(* size_return subtracting from head - 1, as if one slot were never counted *)
size_return_less_one(p) ==
    LET h == IF pc[p] = "size_load_head" THEN head ELSE current_head[p]
        t == IF pc[p] = "size_load_tail" THEN tail ELSE current_tail[p]
        result == to_ptrdiff_t(size_t_difference(h, t + 1))
    IN
    /\ pc[p] \in {"size_load_head", "size_load_tail"}
    /\ UNCHANGED <<max_capacity, workload, teardown, op, solo, opsStarted>>
    /\ Return(p, IF op[p] = "empty" THEN result <= 0 ELSE result)
    /\ UNCHANGED <<shared, inserted, insDone, removed, lifetimes>>
    /\ Observe(p)

(* the second load, the subtraction and the cast; empty() is size() <= 0 *)
size_return(p) ==
    LET h == IF pc[p] = "size_load_head" THEN head ELSE current_head[p]
        t == IF pc[p] = "size_load_tail" THEN tail ELSE current_tail[p]
        result == to_ptrdiff_t(size_t_difference(h, t))
    IN
    /\ pc[p] \in {"size_load_head", "size_load_tail"}
    /\ UNCHANGED <<max_capacity, workload, teardown, op, solo, opsStarted>>
    /\ Return(p, IF op[p] = "empty" THEN result <= 0 ELSE result)
    /\ UNCHANGED <<shared, inserted, insDone, removed, lifetimes>>
    /\ Observe(p)

----------------------------------------------------------------------------
(* queue::~queue and the destruction of the member slots that follows it *)

(* slot::~slot: destroy() when turn is odd *)
slot_destructor(s) == IF s.turn % 2 # 0 THEN destroy(s) ELSE s

(* the body runs slots[i].~slot() for i < max_capacity; then unique_ptr's delete[] *)
(* runs ~slot() on each of the max_capacity + 1 slots of the array                  *)
queue_destructor ==
    LET all == 0..max_capacity
        body == [i \in all |-> IF i < max_capacity THEN slot_destructor(slots[i]) ELSE slots[i]]
        released == [i \in all |-> slot_destructor(body[i])]
        inBody == {i \in all : i < max_capacity /\ slots[i].turn % 2 # 0}
        inRelease == {i \in all : body[i].turn % 2 # 0}
    IN
    /\ teardown = NotTornDown
    /\ Quiescent
    /\ slots' = released
    /\ teardown' = [i \in all |-> (IF i \in inBody THEN 1 ELSE 0)
                                   + (IF i \in inRelease THEN 1 ELSE 0)]
    /\ UNCHANGED <<max_capacity, workload, head, tail, pc, op, locals, ret, inserted, insDone,
                   removed, lifetimes, solo, seen, opsStarted>>

----------------------------------------------------------------------------
Next ==
    \/ queue_destructor
    \/ \E p \in Procs :
        \/ \E v \in Values : emplace(p, v)
        \/ \E v \in Values : push(p, v)
        \/ emplace_construct(p)
        \/ emplace_publish(p)
        \/ \E v \in Values : try_emplace(p, v)
        \/ \E v \in Values : try_push(p, v)
        \/ try_emplace_turn(p)
        \/ try_emplace_cas(p)
        \/ try_emplace_reload(p)
        \/ try_emplace_construct(p)
        \/ try_emplace_publish(p)
        \/ pop(p)
        \/ pop_take(p)
        \/ pop_publish(p)
        \/ try_pop(p)
        \/ try_pop_turn(p)
        \/ try_pop_cas(p)
        \/ try_pop_reload(p)
        \/ try_pop_take(p)
        \/ try_pop_publish(p)
        \/ try_pop_publish_early(p)
        \/ try_pop_take_late(p)
        \/ size(p)
        \/ empty(p)
        \/ size_return(p)

Spec == Init /\ [][Next]_vars

----------------------------------------------------------------------------
(* The threads of TEST_F(QueueTest, ConcurrentAccess) and of CustomObjectQueue:  *)
(* producer i pushes i * NUM_OPERATIONS + j for j = 0, 1, ...; consumer i calls  *)
(* try_pop until it holds a value, NUM_OPERATIONS times.  Threads 1..pairs are   *)
(* the producers 0..pairs-1, the next pairs threads are the consumers, threads   *)
(* beyond 2 * pairs are not started, and the values are counted from 1 because 0 *)
(* is None here.                                                                 *)

TestThreads == 1..(2 * NumPairs)

Pushed(p) == Cardinality({i \in 1..Len(inserted) : inserted[i].by = p})

Obtained(p) == Cardinality({t \in RemovedTickets : removed[t].by = p})

TestValue(i, j) == i * workload.each + j + 1

producer(p) ==
    /\ p <= workload.pairs
    /\ Pushed(p) < workload.each
    /\ push(p, TestValue(p - 1, Pushed(p)))

consumer(p) ==
    /\ p > workload.pairs
    /\ p <= 2 * workload.pairs
    /\ Obtained(p) < workload.each
    /\ try_pop(p)

TestThread(p) ==
    \/ producer(p)
    \/ emplace_construct(p)
    \/ emplace_publish(p)
    \/ consumer(p)
    \/ try_pop_turn(p)
    \/ try_pop_cas(p)
    \/ try_pop_reload(p)
    \/ try_pop_take(p)
    \/ try_pop_publish(p)
    \/ try_pop_publish_early(p)
    \/ try_pop_take_late(p)

(* every thread has been joined *)
Joined ==
    /\ Quiescent
    /\ \A p \in Threads :
           /\ p <= workload.pairs => Pushed(p) = workload.each
           /\ p > workload.pairs /\ p <= 2 * workload.pairs => Obtained(p) = workload.each

(* the fixture is destroyed after the joins *)
TestTearDown == Joined /\ queue_destructor

(* the loop counts the test is run with *)
Workloads ==
    {w \in [pairs : 1..NumPairs, each : 1..NumEach] : w.pairs * w.each <= NumPushes}

TestInit ==
    \E w \in Workloads : Constructed(TestThreads, 0..(w.pairs * w.each - 1), w)

TestNext ==
    \/ TestTearDown
    \/ \E p \in TestThreads : TestThread(p)

(* std::thread: every thread that can take a step eventually takes one *)
TestSpec ==
    /\ TestInit
    /\ [][TestNext]_vars
    /\ \A p \in TestThreads : WF_vars(TestThread(p))

----------------------------------------------------------------------------
(* Values handed to the inserts that have returned, and values the removes returned *)

AllValues == Values \cup {None}

InsertedCount(v) == Cardinality({t \in insDone : inserted[t + 1].value = v})

RemovedCount(v) == Cardinality({t \in RemovedTickets : removed[t].value = v})

Producers == {inserted[i].by : i \in 1..Len(inserted)}
                 \cup {p \in Procs : pc[p] # "idle" /\ op[p] \in InsertOps}

Consumers == {removed[t].by : t \in RemovedTickets}
                 \cup {p \in Procs : pc[p] # "idle" /\ op[p] \in RemoveOps}

(* C1: once as many removes have returned as inserts have returned, every value
   has been returned by the removes exactly as often as it was given to the
   inserts. *)
NoLossNoDuplication ==
    Cardinality(insDone) = Cardinality(RemovedTickets)
        => \A v \in AllValues : RemovedCount(v) = InsertedCount(v)

(* C2: the remove owning tail ticket t returns the value of the insert owning
   head ticket t, and a remove holds a value read from the slot only when that
   insert has published it. *)
TicketOrderIsDeliveryOrder ==
    /\ \A t \in RemovedTickets : t \in insDone /\ removed[t].value = inserted[t + 1].value
    /\ \A p \in Procs :
           pc[p] \in {"pop_publish", "try_pop_publish"}
               => /\ current_tail[p] \in insDone
                  /\ rv[p] = inserted[current_tail[p] + 1].value

(* C3: with one inserting thread and one removing thread, the values removed so
   far are, in order, the first values inserted. *)
FifoSingleProducerSingleConsumer ==
    (Cardinality(Producers) <= 1 /\ Cardinality(Consumers) <= 1)
        => \A t \in RemovedTickets :
               /\ \A u \in 0..t : u \in RemovedTickets /\ u \in insDone
               /\ removed[t].value = inserted[t + 1].value

----------------------------------------------------------------------------
Returned(p, name) == pc[p] = "idle" /\ op[p] = name

(* the call thread p ran began with k elements held and ran with nothing else in flight *)
RanAlone(p, k) == solo[p].alone /\ solo[p].held = k

(* C4: a try_emplace/try_push that returns true ran through an instant at which
   the queue did not hold max_capacity elements or a removal was in flight; run
   alone, it returns false on a queue holding max_capacity elements and true on
   one holding fewer, so the first max_capacity calls on a fresh queue succeed
   and the next one fails. *)
CapacityBound ==
    \A p \in Procs :
        Returned(p, "try_emplace")
            => /\ ret[p] => seen[p].room
               /\ RanAlone(p, max_capacity) => ~ret[p]
               /\ (solo[p].alone /\ solo[p].held < max_capacity) => ret[p]

CapacityBoundWitness ==
    \E p \in Procs :
        /\ Returned(p, "try_emplace")
        /\ RanAlone(p, max_capacity)
        /\ max_capacity = MaxCapacity
        /\ head = max_capacity /\ tail = 0
        /\ ~ret[p]
        /\ ~seen[p].room

(* C5: a try_emplace/try_push that returns false ran through an instant at which
   the slot selected by the current value of head was not at the writer turn of
   that ticket. *)
FailureOnlyWhenNoSlot ==
    \A p \in Procs :
        (Returned(p, "try_emplace") /\ ~ret[p]) => seen[p].noSlot

FailureOnlyWhenNoSlotWitness ==
    \E p \in Procs :
        /\ Returned(p, "try_emplace")
        /\ ~ret[p]
        /\ seen[p].noSlot
        /\ ~solo[p].alone

(* C6 as stated: a try_pop that returns nullopt ran through an instant at which
   no element was in the queue, an element being in the queue from the return of
   its insert until a remove claims its ticket. *)
NulloptOnlyWhenEmpty ==
    \A p \in Procs :
        (Returned(p, "try_pop") /\ ret[p] = None) => seen[p].empty

(* C6 as amended: a try_pop that returns nullopt ran through an instant at which
   the element of the next tail ticket was not published: the slot selected by
   the current value of tail was not at the reader turn of that ticket. *)
NulloptOnlyWhenFrontUnpublished ==
    \A p \in Procs :
        (Returned(p, "try_pop") /\ ret[p] = None) => seen[p].frontUnpublished

NulloptOnlyWhenFrontUnpublishedWitness ==
    \E p \in Procs :
        /\ Returned(p, "try_pop")
        /\ ret[p] = None
        /\ seen[p].frontUnpublished
        /\ ~seen[p].empty

(* C7: an insert that begins with fewer than max_capacity elements held and
   nothing in flight, as after a removal from a full queue, succeeds when it runs
   alone: try_emplace/try_push returns true and the spin loop of emplace/push
   finds its slot at the writer turn. *)
InsertSucceedsAfterRemoval ==
    \A p \in Procs :
        (solo[p].alone /\ solo[p].held < max_capacity)
            => /\ Returned(p, "try_emplace") => ret[p]
               /\ pc[p] = "emplace_wait"
                      => slots[get_idx(current_head[p])].turn
                             = get_current_turn(current_head[p]) * 2

InsertSucceedsAfterRemovalWitness ==
    \E p \in Procs :
        /\ Returned(p, "try_emplace")
        /\ RanAlone(p, max_capacity - 1)
        /\ ret[p]
        /\ Cardinality(RemovedTickets) = 1
        /\ head = max_capacity + 1
        /\ Quiescent

----------------------------------------------------------------------------
(* thread p is between leaving the wait for (or claiming) the turn of slot i and
   its return: inside construct .. store(2g + 1) or move .. destroy .. store(2g + 2) *)
InsideSlot(p, i) ==
    \/ /\ pc[p] \in {"emplace_publish", "try_emplace_construct", "try_emplace_publish"}
       /\ get_idx(current_head[p]) = i
    \/ /\ pc[p] \in {"pop_publish", "try_pop_take", "try_pop_publish", "try_pop_take_late"}
       /\ get_idx(current_tail[p]) = i

(* C8: no two threads are inside the construct-and-publish or the
   move-destroy-and-publish section of the same slot at the same time. *)
ExclusiveSlotOwnership ==
    \A i \in 0..(max_capacity - 1) :
        Cardinality({p \in Procs : InsideSlot(p, i)}) <= 1

(* C9: no construct is applied to storage that holds a live element and no
   destroy to storage that holds none, and with no operation in flight the
   constructs number the inserts that returned and the destroys the removes
   that returned. *)
NoDoubleConstructionOrDestruction ==
    /\ ~lifetimeError
    /\ Quiescent => /\ nConstruct = Cardinality(insDone)
                    /\ nDestroy = Cardinality(RemovedTickets)

(* C10: a size() that runs with nothing else in flight returns the number of
   inserts that have returned minus the number of removes that have returned,
   and an empty() that runs so returns true exactly when that number is 0. *)
QuiescentSizeAndEmptiness ==
    /\ Quiescent => to_ptrdiff_t(size_t_difference(head, tail)) = Held
    /\ \A p \in Procs :
           solo[p].alone
               => /\ Returned(p, "size") => ret[p] = solo[p].held
                  /\ Returned(p, "empty") => (ret[p] <=> solo[p].held = 0)

QuiescentSizeAndEmptinessWitness ==
    \E p, q \in Procs :
        /\ Returned(p, "empty") /\ RanAlone(p, 0) /\ ret[p]
        /\ Returned(q, "size") /\ RanAlone(q, 1) /\ ret[q] = 1
        /\ Cardinality(insDone) = 1
        /\ Cardinality(RemovedTickets) = 1

----------------------------------------------------------------------------
(* C11: in the balanced workload -- every producer makes its blocking pushes, *)
(* every consumer calls try_pop until it has obtained as many values, and the *)
(* pushes together exceed the capacity -- every thread eventually finishes,   *)
(* and from then on head = tail and the turn of every slot is even.           *)

Drained ==
    /\ Joined
    /\ head = tail
    /\ \A i \in DOMAIN slots : slots[i].turn % 2 = 0

BalancedWorkloadDrains == <>[]Drained

BalancedWorkloadDrainsWitness ==
    /\ Drained
    /\ workload.pairs > 1
    /\ head = workload.pairs * workload.each
    /\ head > max_capacity

----------------------------------------------------------------------------
(* C14: once the queue has been destroyed with no call in flight, slot::destroy *)
(* has been applied by the teardown exactly once to every slot whose turn is    *)
(* odd and not at all to a slot whose turn is even, and the destroy calls of    *)
(* the queue's lifetime number its construct calls.                             *)

TeardownDestroys ==
    Cardinality({c \in (DOMAIN teardown) \X (1..2) : c[2] <= teardown[c[1]]})

TeardownDestroysOnce ==
    teardown # NotTornDown =>
        /\ \A i \in DOMAIN slots : teardown[i] = IF slots[i].turn % 2 # 0 THEN 1 ELSE 0
        /\ nDestroy + TeardownDestroys = nConstruct

----------------------------------------------------------------------------
(* C12: try_emplace and try_pop never wait.  In each position of their loop  *)
(* the calling thread has a step it can take whatever the others do, and a   *)
(* call has begun at most one loop iteration more than the number of tickets *)
(* other threads claimed from its counter during the call: every iteration   *)
(* that does not return has seen head (tail for try_pop) advanced.           *)

LoopStep(p) ==
    \/ try_emplace_turn(p)
    \/ try_emplace_cas(p)
    \/ try_emplace_reload(p)
    \/ try_pop_turn(p)
    \/ try_pop_cas(p)
    \/ try_pop_reload(p)

NonBlockingNeverSuspends ==
    \A p \in Threads :
        /\ pc[p] \in LoopPcs => ENABLED LoopStep(p)
        /\ op[p] \in {"try_emplace", "try_pop"} => seen[p].iterations <= seen[p].advances + 1

NonBlockingNeverSuspendsWitness ==
    \E p \in Threads :
        /\ Returned(p, "try_emplace") \/ Returned(p, "try_pop")
        /\ seen[p].iterations = 3
        /\ seen[p].advances = 2

----------------------------------------------------------------------------
(* C13: in the test workload the j-th value consumer i obtains from try_pop is *)
(* the j-th value producer i pushed, i * NUM_OPERATIONS + j, whatever the      *)
(* interleaving of the threads.                                                *)

ObtainedBefore(t) ==
    Cardinality({u \in RemovedTickets : removed[u].by = removed[t].by /\ u < t})

ConsumerGetsItsProducersValues ==
    \A t \in RemovedTickets :
        removed[t].value = TestValue(removed[t].by - workload.pairs - 1, ObtainedBefore(t))

----------------------------------------------------------------------------
(* C15: head and tail never decrease; a step that changes one of them adds   *)
(* exactly 1 and makes the stepping thread the owner of the value before the *)
(* step, and a thread comes to own a ticket in no other way; so no two       *)
(* inserts own the same head ticket and no two removes the same tail ticket, *)
(* whether they claimed by fetch_add or by compare_exchange.                 *)

OwnsHead(p) ==
    pc[p] \in {"emplace_wait", "emplace_publish", "try_emplace_construct", "try_emplace_publish"}

OwnsTail(p) ==
    pc[p] \in {"pop_wait", "pop_publish", "try_pop_take", "try_pop_publish", "try_pop_take_late"}

UniqueOwners ==
    /\ Len(inserted) = head
    /\ \A p \in Threads :
           /\ OwnsHead(p) => current_head[p] < head /\ current_head[p] \notin insDone
           /\ OwnsTail(p) => current_tail[p] < tail /\ current_tail[p] \notin RemovedTickets
    /\ \A p, q \in Threads :
           p # q => /\ OwnsHead(p) /\ OwnsHead(q) => current_head[p] # current_head[q]
                    /\ OwnsTail(p) /\ OwnsTail(q) => current_tail[p] # current_tail[q]

ClaimStep ==
    /\ head' \in {head, head + 1}
    /\ tail' \in {tail, tail + 1}
    /\ head' = head + 1 => \E p \in Threads : ~OwnsHead(p) /\ OwnsHead(p)'
    /\ tail' = tail + 1 => \E p \in Threads : ~OwnsTail(p) /\ OwnsTail(p)'
    /\ \A p \in Threads :
           /\ ~OwnsHead(p) /\ OwnsHead(p)' => head' = head + 1 /\ current_head'[p] = head
           /\ ~OwnsTail(p) /\ OwnsTail(p)' => tail' = tail + 1 /\ current_tail'[p] = tail

TicketsUniqueCountersMonotone == []UniqueOwners /\ [][ClaimStep]_vars

TicketsUniqueCountersMonotoneWitness ==
    \E p, q \in Threads :
        /\ pc[p] = "emplace_wait" /\ pc[q] = "try_emplace_construct"
        /\ current_head[q] = current_head[p] + 1
        /\ \E t \in RemovedTickets : removed[t].via = "try_pop"

----------------------------------------------------------------------------
(* C16: the turn of a slot changes only by +1; from 2g to 2g+1 only in a step *)
(* of the insert that owns head ticket g * capacity + index, from 2g+1 to     *)
(* 2g+2 only in a step of the remove that owns that tail ticket; and while    *)
(* the queue exists, a slot that no thread is inside holds a live element     *)
(* exactly when its turn is odd.                                              *)

TicketOfTurn(i, turn) == (turn \div 2) * max_capacity + i

TurnStep ==
    \A i \in DOMAIN slots :
        \/ slots'[i].turn = slots[i].turn
        \/ /\ slots'[i].turn = slots[i].turn + 1
           /\ \E p \in Threads :
                  /\ pc'[p] # pc[p]
                  /\ IF slots[i].turn % 2 = 0
                     THEN OwnsHead(p) /\ current_head[p] = TicketOfTurn(i, slots[i].turn)
                     ELSE OwnsTail(p) /\ current_tail[p] = TicketOfTurn(i, slots[i].turn)

LiveExactlyWhenOdd ==
    teardown = NotTornDown =>
        \A i \in 0..(max_capacity - 1) :
            (\A p \in Threads : ~InsideSlot(p, i)) => (slots[i].live <=> slots[i].turn % 2 = 1)

SlotTurnProtocol == []LiveExactlyWhenOdd /\ [][TurnStep]_vars

----------------------------------------------------------------------------
(* C17: a blocking emplace that owns head ticket h >= capacity does not       *)
(* construct, and so does not return, before the remove that owns tail ticket *)
(* h - capacity has stored the turn that frees the slot: until then it has no *)
(* step.  A blocking pop that owns tail ticket t does not read its slot, and  *)
(* does not return, before the insert that owns head ticket t has published;  *)
(* until then it has no step.                                                 *)

(* the remove that owns tail ticket t has stored turn 2 * generation + 2 *)
RemovePublished(t) ==
    \/ removed[t] # NoRemoval
    \/ \E q \in Threads : pc[q] = "try_pop_take_late" /\ current_tail[q] = t

SlotFreed(h) == h < max_capacity \/ RemovePublished(h - max_capacity)

BlockingWaitsForItsTurn ==
    /\ \A p \in Threads :
           /\ pc[p] = "emplace_wait" /\ ~SlotFreed(current_head[p]) => ~ENABLED emplace_construct(p)
           /\ pc[p] = "emplace_publish" => SlotFreed(current_head[p])
           /\ pc[p] = "pop_wait" /\ current_tail[p] \notin insDone => ~ENABLED pop_take(p)
           /\ pc[p] = "pop_publish" => current_tail[p] \in insDone
    /\ \A h \in insDone : inserted[h + 1].via = "emplace" => SlotFreed(h)
    /\ \A t \in RemovedTickets : removed[t].via = "pop" => t \in insDone

BlockingWaitsForItsTurnWitness ==
    \E h \in insDone :
        /\ h >= max_capacity
        /\ inserted[h + 1].via = "emplace"
        /\ removed[h - max_capacity].via = "pop"

----------------------------------------------------------------------------
(* C18: size() returns a negative value only if, at the moment it returns, *)
(* some pop has claimed a tail ticket whose element has not been published. *)
NegativeSizeOnlyWithWaitingReader ==
    \A p \in Threads :
        Returned(p, "size") => (ret[p] < 0 => seen[p].readerWaiting)

(* C18, amended: size() returns a negative value only if at some instant of *)
(* the call a pop was waiting on a claimed tail ticket whose element had    *)
(* not been published, or a remove claimed a tail ticket after size() had   *)
(* loaded head and before it loaded tail.                                   *)
NegativeSizeOnlyAfterTailMoved ==
    \A p \in Threads :
        Returned(p, "size") =>
            (ret[p] < 0 => seen[p].readerWaited \/ seen[p].tailAdvanced)

NegativeSizeOnlyAfterTailMovedWitness ==
    \E p \in Threads :
        /\ Returned(p, "size")
        /\ ret[p] < 0
        /\ ~seen[p].readerWaited
        /\ seen[p].tailAdvanced
        /\ \A t \in RemovedTickets : removed[t].via = "try_pop"

----------------------------------------------------------------------------
(* C19: a try_emplace or try_push that returns false and a try_pop that     *)
(* returns no value leave head, tail and every slot -- turn and stored      *)
(* element -- untouched: every step of such a call, from its entry through  *)
(* the loads, a failed compare_exchange and the reloads to its return,      *)
(* changes none of them.                                                    *)

(* a step of thread p that does not claim a ticket and belongs to no claimed one *)
ClaimlessStep(p) ==
    /\ pc'[p] # pc[p]
    /\ op'[p] \in {"try_emplace", "try_pop"}
    /\ pc[p] \in LoopPcs \cup {"idle"}
    /\ pc'[p] \in LoopPcs \cup {"idle"}

FailedCallsChangeNothing ==
    [][\A p \in Threads : ClaimlessStep(p) => UNCHANGED shared]_vars

FailedCallsChangeNothingWitness ==
    \E p \in Threads :
        /\ Returned(p, "try_emplace")
        /\ ret[p] = FALSE
        /\ seen[p].iterations > 1
        /\ \E i \in DOMAIN slots : slots[i].live

----------------------------------------------------------------------------
(* C20: while every insert so far was made with try_emplace or try_push,     *)
(* head - tail <= capacity; while every remove so far was made with try_pop, *)
(* tail <= head.  A blocking emplace begun on a full queue with nothing else *)
(* in flight leaves head - tail above capacity while it waits, and a         *)
(* blocking pop begun on an empty queue leaves tail above head.              *)

BlockingEmplaceUsed == \E i \in 1..Len(inserted) : inserted[i].via = "emplace"

BlockingPopUsed ==
    \/ \E p \in Threads : op[p] = "pop"
    \/ \E t \in RemovedTickets : removed[t].via = "pop"

CounterBounds ==
    /\ ~BlockingEmplaceUsed => head - tail <= max_capacity
    /\ ~BlockingPopUsed => tail <= head
    /\ \A p \in Threads :
           /\ pc[p] = "emplace_wait" /\ RanAlone(p, max_capacity) => head - tail > max_capacity
           /\ pc[p] = "pop_wait" /\ RanAlone(p, 0) => tail > head

CounterBoundsWitness ==
    /\ ~BlockingPopUsed
    /\ \E t \in RemovedTickets : removed[t].via = "try_pop"
    /\ \E i \in 1..Len(inserted) : inserted[i].via = "try_emplace"
    /\ \E p \in Threads : pc[p] = "emplace_wait" /\ RanAlone(p, max_capacity)
====
